---- MODULE Spec2Model ----
(***************************************************************************)
(* Chunk streaming of src/src/chunks.rs: the per-frame system              *)
(* update_chunk_index, the commands it queues (spawn_chunk, entity         *)
(* despawn, remove_chunks_from_index), the ChunkIndex resource, and the    *)
(* heightfield generator generate_heightfield_mesh.                        *)
(*                                                                         *)
(* World positions are f32 in the source.  They are modelled exactly as    *)
(* integers counting half world units (x = -1.0 is -2, x = 13.5 is 27), so *)
(* that the float-to-int cast has a fractional part to drop.               *)
(***************************************************************************)
EXTENDS Integers, Sequences, FiniteSets, TLC

\* chunks.rs:15  const FLOOR_SIZE: i32 = 8
FLOOR_SIZE == 8

\* Number of frames (runs of the Update schedule) explored.
MaxFrames == 4

\* Largest spawn_radius and despawn_radius drawn for ChunkRenderSettings.
MaxSpawnRadius == 1
MaxDespawnRadius == 2

(***************************************************************************)
(* Integer helpers with the semantics of the Rust operators used.          *)
(***************************************************************************)
Abs(a) == IF a >= 0 THEN a ELSE -a

\* i32 `/` in Rust truncates toward zero (b > 0 here).
TruncDiv(a, b) == IF a >= 0 THEN a \div b ELSE -((-a) \div b)

\* Mathematical floor division, the reference the contract is stated against.
FloorDiv(a, b) == a \div b

\* `f32 as i32`: drops the fractional part (rounds toward zero).  The argument
\* is in half units, the result in whole units.
F32AsI32(h) == TruncDiv(h, 2)

\* Mutant of Xz: the x and y components are taken (Vec3::xy()).
XzFromXy(t) == <<t[1], t[2]>>

\* Vec3::xz(): the x and z components of a translation <<x, y, z>>.
Xz(t) == <<t[1], t[3]>>

\* Vec2::as_ivec2(): component-wise `as i32`.
AsIVec2(v) == <<F32AsI32(v[1]), F32AsI32(v[2])>>

\* IVec2 / IVec2::splat(n): component-wise i32 division.
IVec2Div(v, n) == <<TruncDiv(v[1], n), TruncDiv(v[2], n)>>

\* chunks.rs:54  let loc = gt.translation().xz().as_ivec2() / IVec2::splat(FLOOR_SIZE)
ChunkCoord(t) == IVec2Div(AsIVec2(Xz(t)), FLOOR_SIZE)

(***************************************************************************)
(* Inputs.                                                                 *)
(***************************************************************************)
\* Observer translations <<x, y, z>> in half units: x in {-9.0, -1.0, 13.5},
\* z in {-9.0, -1.0}.  13.5 lies on chunk coordinate 1 and more than half a
\* chunk away from that chunk's centre at 8.0.
Translations == {<<x, 0, z>> : x \in {-18, -2, 27}, z \in {-18, -2}}

\* What the query Single<(&GlobalTransform, &ChunkObserver)> can find in a
\* frame: the translations of the entities carrying ChunkObserver (none, one,
\* or two of them).
ObserverSets ==
    {<<>>} \cup {<<t>> : t \in Translations} \cup {<<(<<-2, 0, -2>>), (<<27, 0, -2>>)>>}

SettingsSet ==
    [spawn_radius : 0..MaxSpawnRadius, despawn_radius : (-1)..MaxDespawnRadius]

(***************************************************************************)
(* State.                                                                  *)
(***************************************************************************)
VARIABLES
    settings,    \* Res<ChunkRenderSettings>
    index,       \* Res<ChunkIndex>: function from chunk coordinate to Entity
    world,       \* live terrain entities: Entity -> [offset, transform]
    nextEntity,  \* the next Entity id the world hands out
    queue,       \* the frame's deferred command queue (Commands)
    frame,       \* number of frames run so far
    observers,   \* what the observer query matched in the last frame
    tick,        \* "none" | "ran" | "skipped": what the last frame did
    prevTick,    \* the value of tick before the last frame
    prevObservers, \* the value of observers before the last frame
    visited,     \* chunk coordinates of the current run of frames in which the
                 \* observer stayed on one coordinate or on two adjacent ones
    revisit,     \* the last run found the observer on a coordinate of visited
    loc,         \* observer chunk coordinate computed by the last run
    before,      \* ChunkIndex as the last run of update_chunk_index read it
    requested,   \* keys for which the last run queued spawn_chunk, in order
    generated,   \* <<key, entity>> of every spawn_chunk applied this frame
    destroyed,   \* entity of every despawn command applied this frame
    despawnedAt, \* <<key, c>> for every key removed from the index so far, c
                 \* the observer chunk coordinate of the tick that removed it
    meshArgs,    \* (offset, resolution) handed to generate_heightfield_mesh
    meshOut,     \* what that call returned, NoMesh before the call
    meshRight,   \* what the call for the neighbour offset + (1, 0) returned
    meshFront,   \* what the call for the neighbour offset + (0, 1) returned
    noiseArgs,   \* (layers, x, z): a field LayeredPerlin::new(layers) and a point
    noiseField,  \* <<field>> built by LayeredPerlin::new(layers), <<>> before
    noiseOut     \* <<value>> returned by get(x, z) on that field, <<>> before

streamVars == <<settings, index, world, nextEntity, queue, frame, observers,
                tick, prevTick, prevObservers, visited, revisit, loc, before,
                requested, generated, destroyed, despawnedAt>>

genVars == <<meshArgs, meshOut, meshRight, meshFront>>

noiseVars == <<noiseArgs, noiseField, noiseOut>>

vars == <<streamVars, genVars, noiseVars>>

NoMesh == [mesh |-> <<>>, heights |-> <<>>, samples |-> <<>>, perlin |-> <<>>]

EmptyIndex == [k \in {} |-> 0]

\* chunks.rs:27-36  ChunkRenderSettings::default()
DefaultSettings == [spawn_radius |-> 3, despawn_radius |-> 5]

\* The streaming state after ChunksPlugin::build (init_resource::<ChunkIndex>).
StreamInit ==
    /\ index = EmptyIndex
    /\ world = EmptyIndex
    /\ nextEntity = 1
    /\ queue = <<>>
    /\ frame = 0
    /\ observers = <<>>
    /\ tick = "none"
    /\ prevTick = "none"
    /\ prevObservers = <<>>
    /\ visited = {}
    /\ revisit = FALSE
    /\ loc = <<0, 0>>
    /\ before = EmptyIndex
    /\ requested = <<>>
    /\ generated = <<>>
    /\ destroyed = <<>>
    /\ despawnedAt = {}

\* No call of generate_heightfield_mesh under observation.
GenIdle ==
    /\ meshArgs = [offset |-> <<0, 0>>, resolution |-> 1]
    /\ meshOut = NoMesh
    /\ meshRight = NoMesh
    /\ meshFront = NoMesh

\* No call of LayeredPerlin::get under observation.
NoiseIdle ==
    /\ noiseArgs = [layers |-> 0, x |-> <<0, 1>>, z |-> <<0, 1>>]
    /\ noiseField = <<>>
    /\ noiseOut = <<>>

Init ==
    /\ settings \in SettingsSet
    /\ StreamInit
    /\ GenIdle
    /\ NoiseIdle

(***************************************************************************)
(* update_chunk_index: the two passes.                                     *)
(***************************************************************************)
\* Keys of a set in ascending (x, then z) order.
KeyLess(a, b) == a[1] < b[1] \/ (a[1] = b[1] /\ a[2] < b[2])

RECURSIVE Ascending(_)
Ascending(S) ==
    IF S = {} THEN <<>>
    ELSE LET m == CHOOSE a \in S : \A b \in S \ {a} : KeyLess(a, b)
         IN  <<m>> \o Ascending(S \ {m})

Reverse(q) == [i \in 1..Len(q) |-> q[Len(q) + 1 - i]]

\* HashMap::iter(): every entry once, in an order the map does not specify.
\* Two orders are explored, ascending and descending.
IterOrders(idx) == {Ascending(DOMAIN idx), Reverse(Ascending(DOMAIN idx))}

\* Mutant of SpawnWindow: the half-open ranges -r..r, which leave out x = r
\* and y = r.
SpawnWindowExclusive(c, r) ==
    LET n == IF r >= 0 THEN 2 * r ELSE 0
    IN  [i \in 1..(n * n) |->
            <<c[1] + ((i - 1) % n) - r, c[2] + ((i - 1) \div n) - r>>]

\* Mutant of SpawnWindow: the loops are nested the other way round, x outside
\* and y inside.
SpawnWindowColumnMajor(c, r) ==
    LET n == IF r >= 0 THEN 2 * r + 1 ELSE 0
    IN  [i \in 1..(n * n) |->
            <<c[1] + ((i - 1) \div n) - r, c[2] + ((i - 1) % n) - r>>]

\* chunks.rs:55-57  for y in -r..=r { for x in -r..=r { key = loc + (x, y) } }
\* (an empty range when r < 0).
SpawnWindow(c, r) ==
    LET n == IF r >= 0 THEN 2 * r + 1 ELSE 0
    IN  [i \in 1..(n * n) |->
            <<c[1] + ((i - 1) % n) - r, c[2] + ((i - 1) \div n) - r>>]

\* Mutant of Missing: the contains_key test left out.
MissingAlways(idx, key) == TRUE

\* chunks.rs:58  if !index.contains_key(&key)
Missing(idx, key) == key \notin DOMAIN idx

\* Mutant of SpawnPass: a prefetch margin of one chunk, requested whether or
\* not the index holds the key.
SpawnPassPrefetch(c, idx, r) == SpawnWindow(c, r + 1)

\* Mutant of SpawnPass: every key of the window is requested, indexed or not.
SpawnPassWholeWindow(c, idx, r) == SpawnWindow(c, r)

\* chunks.rs:55-62  the spawn pass: the keys spawn_chunk is queued for, in order.
SpawnPass(c, idx, r) == SelectSeq(SpawnWindow(c, r), LAMBDA key : Missing(idx, key))

\* Mutant of TooFar: both axes must exceed the radius (&& for ||).
TooFarBothAxes(key, c, r) == Abs(key[1] - c[1]) > r /\ Abs(key[2] - c[2]) > r

\* Mutant of TooFar: a chunk one step short of the radius is already too far.
TooFarEarly(key, c, r) == Abs(key[1] - c[1]) > r - 1 \/ Abs(key[2] - c[2]) > r - 1

\* Mutant of TooFar: only the x axis is tested.
TooFarXOnly(key, c, r) == Abs(key[1] - c[1]) > r

\* chunks.rs:68-69  d = key - loc; d.x.abs() > despawn_radius || d.y.abs() > despawn_radius
TooFar(key, c, r) == Abs(key[1] - c[1]) > r \/ Abs(key[2] - c[2]) > r

\* Mutant of DespawnEnabled: the sentinel test left out.
DespawnAlwaysEnabled(r) == TRUE

\* Mutant of DespawnEnabled: radius 0 is taken for the sentinel too (> for >=).
DespawnEnabledPositive(r) == r > 0

\* chunks.rs:65  if settings.despawn_radius >= 0
DespawnEnabled(r) == r >= 0

\* Mutant of DespawnPass: the boundary distance is despawned too (>= for >).
DespawnPassInclusive(c, it, r) ==
    IF DespawnEnabled(r)
    THEN SelectSeq(it, LAMBDA key : Abs(key[1] - c[1]) >= r \/ Abs(key[2] - c[2]) >= r)
    ELSE <<>>

\* chunks.rs:64-73  the despawn pass over the entries in iteration order `it`:
\* the keys pushed to to_remove, in order.
DespawnPass(c, it, r) ==
    IF DespawnEnabled(r) THEN SelectSeq(it, LAMBDA key : TooFar(key, c, r)) ELSE <<>>

SpawnCmd(key) == [cmd |-> "spawn_chunk", arg |-> key]
DespawnCmd(e) == [cmd |-> "despawn", arg |-> e]
RemoveCmd(keys) == [cmd |-> "remove_chunks_from_index", arg |-> keys]

\* Mutant of QueuedCommands: the despawn pass runs, and queues, first.
QueuedCommandsDespawnFirst(c, idx, it, cfg) ==
    LET spawn == SpawnPass(c, idx, cfg.spawn_radius)
        toRemove == DespawnPass(c, it, cfg.despawn_radius)
    IN  [i \in 1..Len(toRemove) |-> DespawnCmd(idx[toRemove[i]])]
        \o (IF toRemove # <<>> THEN <<RemoveCmd(toRemove)>> ELSE <<>>)
        \o [i \in 1..Len(spawn) |-> SpawnCmd(spawn[i])]

\* chunks.rs:52-77  the commands one run queues, in queueing order.
QueuedCommands(c, idx, it, cfg) ==
    LET spawn == SpawnPass(c, idx, cfg.spawn_radius)
        toRemove == DespawnPass(c, it, cfg.despawn_radius)
    IN  [i \in 1..Len(spawn) |-> SpawnCmd(spawn[i])]
        \o [i \in 1..Len(toRemove) |-> DespawnCmd(idx[toRemove[i]])]
        \o (IF toRemove # <<>> THEN <<RemoveCmd(toRemove)>> ELSE <<>>)

\* Mutant of SingleMatches: the first match is taken when there are several.
AnyMatches(obs) == Len(obs) >= 1

\* chunks.rs:48  Single<..>: the system runs only when exactly one entity matches.
SingleMatches(obs) == Len(obs) = 1

\* Two chunk coordinates next to each other (side by side or diagonal).
Adjacent(a, b) == a # b /\ Abs(a[1] - b[1]) <= 1 /\ Abs(a[2] - b[2]) <= 1

\* The coordinates of the current back-and-forth run once the observer is
\* found on c: c joins a run of one adjacent coordinate, stays in a run it is
\* already part of, and starts a new run otherwise.
Visit(seen, c) ==
    IF c \in seen THEN seen
    ELSE IF Cardinality(seen) = 1 /\ \A a \in seen : Adjacent(a, c)
         THEN seen \cup {c}
         ELSE {c}

(***************************************************************************)
(* The deferred commands.                                                  *)
(***************************************************************************)
\* Mutant of SpawnChunk: the entity is spawned but never registered.
SpawnChunkNoInsert(st, offset) ==
    LET entity == st.nextEntity
    IN  [st EXCEPT
            !.nextEntity = entity + 1,
            !.world = (entity :> [offset |-> offset,
                                  transform |-> <<offset[1] * FLOOR_SIZE, 0,
                                                  offset[2] * FLOOR_SIZE>>]) @@ @,
            !.generated = Append(@, <<offset, entity>>)]

\* Mutant of SpawnChunk: an insert that keeps the handle already stored
\* under the coordinate.
SpawnChunkKeepExisting(st, offset) ==
    LET entity == st.nextEntity
    IN  [st EXCEPT
            !.nextEntity = entity + 1,
            !.world = (entity :> [offset |-> offset,
                                  transform |-> <<offset[1] * FLOOR_SIZE, 0,
                                                  offset[2] * FLOOR_SIZE>>]) @@ @,
            !.index = @ @@ (offset :> entity),
            !.generated = Append(@, <<offset, entity>>)]

\* chunks.rs:86-122  spawn_chunk(offset): a new entity placed at
\* offset * FLOOR_SIZE, carrying the mesh and collider generated for offset,
\* is inserted into the index under offset (HashMap::insert replaces).
SpawnChunk(st, offset) ==
    LET entity == st.nextEntity
    IN  [st EXCEPT
            !.nextEntity = entity + 1,
            !.world = (entity :> [offset |-> offset,
                                  transform |-> <<offset[1] * FLOOR_SIZE, 0,
                                                  offset[2] * FLOOR_SIZE>>]) @@ @,
            !.index = (offset :> entity) @@ @,
            !.generated = Append(@, <<offset, entity>>)]

\* Mutant of Despawn: the despawn also drops the entity's index entry.
DespawnAndUnindex(st, e) ==
    [st EXCEPT
        !.world = [x \in DOMAIN @ \ {e} |-> @[x]],
        !.index = [k \in {j \in DOMAIN @ : @[j] # e} |-> @[k]],
        !.destroyed = Append(@, e)]

\* chunks.rs:70  commands.entity(*entity).despawn()
Despawn(st, e) ==
    [st EXCEPT
        !.world = [x \in DOMAIN @ \ {e} |-> @[x]],
        !.destroyed = Append(@, e)]

\* Mutant of RemoveChunksFromIndex: only the first key is removed.
RemoveFirstChunkFromIndex(st, keys) ==
    [st EXCEPT !.index = [k \in DOMAIN @ \ {keys[1]} |-> @[k]]]

\* chunks.rs:80-84  remove_chunks_from_index(keys)
RemoveChunksFromIndex(st, keys) ==
    LET gone == {keys[i] : i \in 1..Len(keys)}
    IN  [st EXCEPT !.index = [k \in DOMAIN @ \ gone |-> @[k]]]

ApplyCommand(st, c) ==
    CASE c.cmd = "spawn_chunk" -> SpawnChunk(st, c.arg)
      [] c.cmd = "despawn" -> Despawn(st, c.arg)
      [] c.cmd = "remove_chunks_from_index" -> RemoveChunksFromIndex(st, c.arg)

\* The command queue is applied front to back.
RECURSIVE ApplyAll(_, _)
ApplyAll(st, q) ==
    IF q = <<>> THEN st ELSE ApplyAll(ApplyCommand(st, Head(q)), Tail(q))

(***************************************************************************)
(* Actions.                                                                *)
(***************************************************************************)
\* One frame's run of the system update_chunk_index, with `obs` what the
\* observer query matches.  With no single match the system is skipped.
UpdateChunkIndex(obs) ==
    /\ queue = <<>>
    /\ frame < MaxFrames
    /\ frame' = frame + 1
    /\ observers' = obs
    /\ prevTick' = tick
    /\ prevObservers' = observers
    /\ generated' = <<>>
    /\ destroyed' = <<>>
    /\ before' = index
    /\ UNCHANGED <<settings, index, world, nextEntity, despawnedAt, genVars,
                   noiseVars>>
    /\ IF SingleMatches(obs)
       THEN LET c == ChunkCoord(obs[1])
            IN  /\ tick' = "ran"
                /\ loc' = c
                /\ visited' = Visit(visited, c)
                /\ revisit' = (c \in visited)
                /\ requested' = SpawnPass(c, index, settings.spawn_radius)
                /\ \E it \in IterOrders(index) :
                       queue' = QueuedCommands(c, index, it, settings)
       ELSE /\ tick' = "skipped"
            /\ requested' = <<>>
            /\ revisit' = FALSE
            /\ UNCHANGED <<loc, queue, visited>>

\* The scheduler applies the frame's queued commands.
ApplyDeferred ==
    /\ queue # <<>>
    /\ LET st == ApplyAll([index |-> index, world |-> world,
                           nextEntity |-> nextEntity,
                           generated |-> generated, destroyed |-> destroyed],
                          queue)
       IN  /\ index' = st.index
           /\ world' = st.world
           /\ nextEntity' = st.nextEntity
           /\ generated' = st.generated
           /\ destroyed' = st.destroyed
           /\ despawnedAt' = despawnedAt
                  \cup {<<k, loc>> : k \in DOMAIN index \ DOMAIN st.index}
    /\ queue' = <<>>
    /\ UNCHANGED <<settings, frame, observers, tick, prevTick, prevObservers,
                   visited, revisit, loc, before, requested, genVars, noiseVars>>

Next ==
    \/ \E obs \in ObserverSets : UpdateChunkIndex(obs)
    \/ ApplyDeferred

Spec == Init /\ [][Next]_vars

(***************************************************************************)
(* The same system with an observer that also moves up and down.           *)
(***************************************************************************)
\* Observer heights in half units: y in {-20.0, 0.0, 20.0}.
AltitudeYs == {-40, 0, 40}

\* One observer per frame, at x in {-9.0, 13.5}, z = -1.0 and any of the
\* heights.
AltitudeObservers == {<<(<<x, y, -2>>)>> : x \in {-18, 27}, y \in AltitudeYs}

AltitudeNext ==
    \/ \E obs \in AltitudeObservers : UpdateChunkIndex(obs)
    \/ ApplyDeferred

AltitudeSpec == Init /\ [][AltitudeNext]_vars

(***************************************************************************)
(* The same system with the queued commands applied one at a time, the     *)
(* three kinds of command in any interleaving (commands of one kind in     *)
(* the order queued).                                                      *)
(***************************************************************************)
CommandKinds == {"spawn_chunk", "despawn", "remove_chunks_from_index"}

\* One observer per frame, on chunk coordinate (0, 0) or (1, -1).
CommandObservers == {<<t>> : t \in {<<-2, 0, -2>>, <<27, 0, -18>>}}

\* Position of the first command of a kind in queue q.
FirstOf(q, kind) ==
    CHOOSE i \in 1..Len(q) : q[i].cmd = kind /\ \A j \in 1..(i - 1) : q[j].cmd # kind

\* Queue q without its i-th command.
Without(q, i) == SubSeq(q, 1, i - 1) \o SubSeq(q, i + 1, Len(q))

\* The first queued command of `kind` runs and leaves the queue.
ApplyNext(kind) ==
    /\ \E i \in 1..Len(queue) : queue[i].cmd = kind
    /\ LET i == FirstOf(queue, kind)
           st == ApplyCommand([index |-> index, world |-> world,
                               nextEntity |-> nextEntity,
                               generated |-> generated, destroyed |-> destroyed],
                              queue[i])
       IN  /\ index' = st.index
           /\ world' = st.world
           /\ nextEntity' = st.nextEntity
           /\ generated' = st.generated
           /\ destroyed' = st.destroyed
           /\ despawnedAt' = despawnedAt
                  \cup {<<k, loc>> : k \in DOMAIN index \ DOMAIN st.index}
           /\ queue' = Without(queue, i)
    /\ UNCHANGED <<settings, frame, observers, tick, prevTick, prevObservers,
                   visited, revisit, loc, before, requested, genVars, noiseVars>>

CommandNext ==
    \/ \E obs \in CommandObservers : UpdateChunkIndex(obs)
    \/ \E kind \in CommandKinds : ApplyNext(kind)

CommandSpec == Init /\ [][CommandNext]_vars

(***************************************************************************)
(* Heightfield generation.  f32/f64 values are modelled as exact rationals  *)
(* <<numerator, denominator>> in lowest terms with a positive denominator.  *)
(***************************************************************************)
\* e, with v evaluated first.  TLC evaluates an operator's arguments on
\* demand; a loop that hands its accumulator to the next round without
\* looking at it would otherwise build the whole chain of rounds before
\* evaluating any of them.
Then(v, e) == IF v = v THEN e ELSE e

RECURSIVE GCD(_, _)
GCD(a, b) == IF b = 0 THEN a ELSE GCD(b, a % b)

Rat(n, d) == LET g == GCD(Abs(n), d) IN <<n \div g, d \div g>>
RatInt(i) == <<i, 1>>
RatAdd(a, b) == Rat(a[1] * b[2] + b[1] * a[2], a[2] * b[2])
RatSub(a, b) == Rat(a[1] * b[2] - b[1] * a[2], a[2] * b[2])
RatMul(a, b) == Rat(a[1] * b[1], a[2] * b[2])

\* Largest chunk offset (per axis, either sign) and largest resolution the
\* generator is applied to.
MaxOffset == 2
MaxResolution == 3

\* chunks.rs:159  LayeredPerlin::new(8)
NUM_LAYERS == 8

\* chunks.rs:160  let noise_scale = 0.02
NoiseScale == <<1, 50>>

\* chunks.rs:161  let height_scale = 6.0
HeightScale == <<6, 1>>

\* noise::Perlin::new(seed).get([x, z]): the base generator is the external
\* noise crate.  It is modelled as a fixed function of (seed, x, z) that
\* tells its three arguments apart.
PerlinGet(seed, x, z) ==
    RatInt(((seed * 31 + x[1] * 7 + x[2] * 3 + z[1] * 13 + z[2] * 5) % 11) - 5)

\* Mutant of LayeredPerlinNew: the seeds run over 1..=num_layers.
LayeredPerlinNewSeedsFromOne(num_layers) ==
    [layers |-> [i \in 1..num_layers |-> i],
     lacunarity |-> <<2, 1>>,
     persistance |-> <<1, 2>>]

\* chunks.rs:133-139  LayeredPerlin::new(num_layers): layer i is Perlin::new(i).
LayeredPerlinNew(num_layers) ==
    [layers |-> [i \in 1..num_layers |-> i - 1],
     lacunarity |-> <<2, 1>>,
     persistance |-> <<1, 2>>]

\* chunks.rs:146-150  the loop of LayeredPerlin::get from layer i on.
RECURSIVE LayerLoop(_, _, _, _, _, _, _)
LayerLoop(p, x, z, i, frequency, amplitude, acc) ==
    IF i > Len(p.layers) THEN acc
    ELSE LayerLoop(p, x, z, i + 1,
                   RatMul(frequency, p.lacunarity),
                   RatMul(amplitude, p.persistance),
                   RatAdd(acc, RatMul(PerlinGet(p.layers[i],
                                                RatMul(x, frequency),
                                                RatMul(z, frequency)),
                                      amplitude)))

\* Mutant of LayeredPerlinGet: the amplitude starts at the persistence, not 1.
LayeredPerlinGetHalfStart(p, x, z) ==
    LayerLoop(p, x, z, 1, RatInt(1), p.persistance, RatInt(0))

\* chunks.rs:141-153  LayeredPerlin::get
LayeredPerlinGet(p, x, z) == LayerLoop(p, x, z, 1, RatInt(1), RatInt(1), RatInt(0))

\* Mutant of LocalPos: the grid is spread over resolution + 1 steps, so the
\* last column stops one step short of the far edge.
LocalPosShort(i, resolution) ==
    RatMul(RatSub(Rat(i, resolution + 1), <<1, 2>>), RatInt(FLOOR_SIZE))

\* Mutant of LocalPos: the - 0.5 is left out, so the grid spans
\* [0, FLOOR_SIZE] from the chunk's origin.
LocalPosUncentred(i, resolution) ==
    RatMul(Rat(i, resolution), RatInt(FLOOR_SIZE))

\* chunks.rs:172-173  (i as f32 / resolution as f32 - 0.5) * FLOOR_SIZE as f32
LocalPos(i, resolution) ==
    RatMul(RatSub(Rat(i, resolution), <<1, 2>>), RatInt(FLOOR_SIZE))

\* Mutant of SampleCoord: the chunk offset is left out of the sample point.
SampleCoordLocal(off, pos) == RatMul(pos, NoiseScale)

\* chunks.rs:177-178  ((offset * FLOOR_SIZE) as f64 + pos as f64) * noise_scale
SampleCoord(off, pos) == RatMul(RatAdd(RatInt(off * FLOOR_SIZE), pos), NoiseScale)

\* chunks.rs:159  let perlin = LayeredPerlin::new(8)
MeshPerlin == LayeredPerlinNew(NUM_LAYERS)

\* chunks.rs:172-184  the body of the vertex loop for grid index (x, z).
VertexAt(offset, resolution, x, z) ==
    LET x_pos == LocalPos(x, resolution)
        z_pos == LocalPos(z, resolution)
        height == RatMul(LayeredPerlinGet(MeshPerlin,
                                          SampleCoord(offset[1], x_pos),
                                          SampleCoord(offset[2], z_pos)),
                         HeightScale)
    IN  [position |-> <<x_pos, height, z_pos>>,
         uv |-> <<Rat(x, resolution), Rat(z, resolution)>>,
         height |-> height,
         sample |-> <<SampleCoord(offset[1], x_pos), SampleCoord(offset[2], z_pos)>>]

\* chunks.rs:182-184  positions.push, uvs.push, height_column.push.  The
\* point handed to perlin.get for the vertex is recorded next to it.
PushVertex(m, v) ==
    [m EXCEPT !.positions = Append(@, v.position),
              !.uvs = Append(@, v.uv),
              !.height_column = Append(@, v.height),
              !.samples = Append(@, v.sample)]

\* Mutant of PushColumn: the column is put in front, reversing the x order of
\* the height matrix.
PushColumnFront(m) == [m EXCEPT !.heights = <<m.height_column>> \o @]

\* chunks.rs:186  heights.push(height_column)
PushColumn(m) == [m EXCEPT !.heights = Append(@, m.height_column)]

\* Mutant of VertexLoopDone: the half-open range 0..resolution.
VertexLoopDoneExclusive(i, resolution) == i >= resolution

\* chunks.rs:169,171  `0..=resolution`: the vertex loops run while i <= resolution.
VertexLoopDone(i, resolution) == i > resolution

\* chunks.rs:193,194  `0..resolution`: the cell loops run while i < resolution.
CellLoopDone(i, resolution) == i >= resolution

\* chunks.rs:171-185  the inner vertex loop from z on.
RECURSIVE VertexZLoop(_, _, _, _, _)
VertexZLoop(offset, resolution, x, z, m) ==
    IF VertexLoopDone(z, resolution) THEN m
    ELSE LET pushed == PushVertex(m, VertexAt(offset, resolution, x, z))
         IN  Then(pushed, VertexZLoop(offset, resolution, x, z + 1, pushed))

\* chunks.rs:169-187  the outer vertex loop from x on.
RECURSIVE VertexXLoop(_, _, _, _)
VertexXLoop(offset, resolution, x, m) ==
    IF VertexLoopDone(x, resolution) THEN m
    ELSE LET column == PushColumn(VertexZLoop(offset, resolution, x, 0,
                                              [m EXCEPT !.height_column = <<>>]))
         IN  Then(column, VertexXLoop(offset, resolution, x + 1, column))

\* Mutant of CellIndices: rows are addressed with a stride of resolution
\* vertices, one short of the vertex loop's resolution + 1.
CellIndicesShortStride(resolution, x, z) ==
    LET top_left == x * resolution + z
        top_right == x * resolution + z + 1
        bottom_left == (x + 1) * resolution + z
        bottom_right == (x + 1) * resolution + z + 1
    IN  <<bottom_left, top_left, top_right, bottom_left, top_right, bottom_right>>

\* chunks.rs:197-208  the six indices pushed for cell (x, z).
CellIndices(resolution, x, z) ==
    LET top_left == x * (resolution + 1) + z
        top_right == x * (resolution + 1) + z + 1
        bottom_left == (x + 1) * (resolution + 1) + z
        bottom_right == (x + 1) * (resolution + 1) + z + 1
    IN  <<bottom_left, top_left, top_right, bottom_left, top_right, bottom_right>>

\* chunks.rs:194-209  the inner cell loop from z on.
RECURSIVE CellZLoop(_, _, _, _)
CellZLoop(resolution, x, z, indices) ==
    IF CellLoopDone(z, resolution) THEN indices
    ELSE LET pushed == indices \o CellIndices(resolution, x, z)
         IN  Then(pushed, CellZLoop(resolution, x, z + 1, pushed))

\* chunks.rs:193-210  the outer cell loop from x on.
RECURSIVE CellXLoop(_, _, _)
CellXLoop(resolution, x, indices) ==
    IF CellLoopDone(x, resolution) THEN indices
    ELSE LET row == CellZLoop(resolution, x, 0, indices)
         IN  Then(row, CellXLoop(resolution, x + 1, row))

\* chunks.rs:158-224  generate_heightfield_mesh(offset, resolution) returns
\* (mesh, heights).  The smooth normals bevy computes from the positions and
\* indices are not part of the model.  The sample points and the noise field
\* the call built are recorded next to what it returns.
GenerateHeightfieldMesh(offset, resolution) ==
    LET m == VertexXLoop(offset, resolution, 0,
                         [positions |-> <<>>, uvs |-> <<>>, heights |-> <<>>,
                          height_column |-> <<>>, samples |-> <<>>])
    IN  [mesh |-> [positions |-> m.positions,
                   uvs |-> m.uvs,
                   indices |-> CellXLoop(resolution, 0, <<>>)],
         heights |-> m.heights,
         samples |-> m.samples,
         perlin |-> MeshPerlin]

MeshArgsSet ==
    [offset : ((-MaxOffset)..MaxOffset) \X ((-MaxOffset)..MaxOffset),
     resolution : 1..MaxResolution]

MeshInit ==
    /\ settings = DefaultSettings
    /\ StreamInit
    /\ NoiseIdle
    /\ meshArgs \in MeshArgsSet
    /\ meshOut = NoMesh
    /\ meshRight = NoMesh
    /\ meshFront = NoMesh

\* One call of generate_heightfield_mesh.
Generate ==
    /\ meshOut = NoMesh
    /\ meshOut' = GenerateHeightfieldMesh(meshArgs.offset, meshArgs.resolution)
    /\ UNCHANGED <<streamVars, noiseVars, meshArgs, meshRight, meshFront>>

\* The call spawn_chunk makes for the neighbouring chunk along x.
GenerateRight ==
    /\ meshRight = NoMesh
    /\ meshRight' = GenerateHeightfieldMesh(
                        <<meshArgs.offset[1] + 1, meshArgs.offset[2]>>,
                        meshArgs.resolution)
    /\ UNCHANGED <<streamVars, noiseVars, meshArgs, meshOut, meshFront>>

\* The call spawn_chunk makes for the neighbouring chunk along z.
GenerateFront ==
    /\ meshFront = NoMesh
    /\ meshFront' = GenerateHeightfieldMesh(
                        <<meshArgs.offset[1], meshArgs.offset[2] + 1>>,
                        meshArgs.resolution)
    /\ UNCHANGED <<streamVars, noiseVars, meshArgs, meshOut, meshRight>>

MeshNext ==
    \/ Generate
    \/ GenerateRight
    \/ GenerateFront

MeshSpec == MeshInit /\ [][MeshNext]_vars

(***************************************************************************)
(* LayeredPerlin::get applied to fields of a few layers.                   *)
(***************************************************************************)
\* Largest layer count of the fields get is applied to.
MaxLayers == 3

\* Points handed to get: -2.71, -0.5, 0, 0.06, 3.14.
NoiseCoords == {<<-271, 100>>, <<-1, 2>>, <<0, 1>>, <<3, 50>>, <<157, 50>>}

NoiseInit ==
    /\ settings = DefaultSettings
    /\ StreamInit
    /\ GenIdle
    /\ noiseArgs \in [layers : 0..MaxLayers, x : NoiseCoords, z : NoiseCoords]
    /\ noiseField = <<>>
    /\ noiseOut = <<>>

\* One call LayeredPerlin::new(layers).get(x, z).
NoiseGet ==
    /\ noiseOut = <<>>
    /\ noiseField' = <<LayeredPerlinNew(noiseArgs.layers)>>
    /\ noiseOut' = <<LayeredPerlinGet(noiseField'[1], noiseArgs.x, noiseArgs.z)>>
    /\ UNCHANGED <<streamVars, genVars, noiseArgs>>

NoiseNext == NoiseGet

NoiseSpec == NoiseInit /\ [][NoiseNext]_vars

\* The fields the program builds: the one of a call of get, and the one
\* generate_heightfield_mesh builds for itself.
FieldNext ==
    \/ NoiseGet
    \/ Generate

FieldSpec == NoiseInit /\ [][FieldNext]_vars

(***************************************************************************)
(* spawn_chunk applied to an index and an offset of the caller's choice.   *)
(***************************************************************************)
Offsets == ((-MaxOffset)..MaxOffset) \X ((-MaxOffset)..MaxOffset)

\* The streaming state the first tick leaves with the observer on chunk c and
\* spawn radius r (despawning disabled).
FirstTickState(c, r) ==
    ApplyAll([index |-> EmptyIndex, world |-> EmptyIndex, nextEntity |-> 1,
              generated |-> <<>>, destroyed |-> <<>>],
             QueuedCommands(c, EmptyIndex, <<>>,
                            [spawn_radius |-> r, despawn_radius |-> -1]))

\* A spawn_chunk command for `offset` is queued on the state of a first tick.
InsertInit ==
    /\ settings = DefaultSettings
    /\ GenIdle
    /\ NoiseIdle
    /\ frame = 0
    /\ observers = <<>>
    /\ tick = "none"
    /\ prevTick = "none"
    /\ prevObservers = <<>>
    /\ visited = {}
    /\ revisit = FALSE
    /\ generated = <<>>
    /\ destroyed = <<>>
    /\ despawnedAt = {}
    /\ \E c \in Offsets, r \in 0..MaxSpawnRadius, offset \in Offsets :
           LET st == FirstTickState(c, r)
           IN  /\ loc = c
               /\ index = st.index
               /\ world = st.world
               /\ nextEntity = st.nextEntity
               /\ before = st.index
               /\ requested = <<offset>>
               /\ queue = <<SpawnCmd(offset)>>

InsertNext == ApplyDeferred

InsertSpec == InsertInit /\ [][InsertNext]_vars

(***************************************************************************)
(* Vocabulary of the properties.                                           *)
(***************************************************************************)
\* A frame's commands have been applied (or it queued none).
TickBoundary == queue = <<>>

\* The last frame ran both passes and its commands have been applied.
TickDone == tick = "ran" /\ TickBoundary

\* The square of coordinates within r of c on both axes.
Square(c, r) == {<<c[1] + dx, c[2] + dz>> : dx \in (-r)..r, dz \in (-r)..r}

Max(a, b) == IF a >= b THEN a ELSE b

\* Distance between two chunk coordinates: the larger of the two axis distances.
Dist(a, b) == Max(Abs(a[1] - b[1]), Abs(a[2] - b[2]))

Count(q, e) == Cardinality({i \in 1..Len(q) : q[i] = e})

Range(q) == {q[i] : i \in 1..Len(q)}

GeneratedKeys == {generated[i][1] : i \in 1..Len(generated)}

\* The single observer of the last frame, when it had exactly one.
Observer == observers[1]

(***************************************************************************)
(* C1  The chunk coordinate a run derives from the observer's world (x, z)  *)
(* is (floor(x / FLOOR_SIZE), floor(z / FLOOR_SIZE)), also for negative     *)
(* positions: x = -1.0 gives chunk x = -1.  (Positions are in half units,   *)
(* so floor(x / 8) is the floor of the half-unit value over 16.)            *)
(***************************************************************************)
C1_FloorChunkCoord ==
    tick = "ran" =>
        loc = <<FloorDiv(Observer[1], 2 * FLOOR_SIZE),
                FloorDiv(Observer[3], 2 * FLOOR_SIZE)>>

(***************************************************************************)
(* C2  Spawn completeness: with spawn_radius s >= 0 and despawn_radius >= s *)
(* or negative, once a frame's commands are applied the index holds every   *)
(* coordinate within s of the observer coordinate; from an empty index it   *)
(* holds exactly those (2s+1)^2 coordinates.                                *)
(***************************************************************************)
C2_SpawnCompleteness ==
    LET s == settings.spawn_radius
        d == settings.despawn_radius
    IN  (TickDone /\ s >= 0 /\ (d >= s \/ d < 0)) =>
            /\ Square(loc, s) \subseteq DOMAIN index
            /\ (before = EmptyIndex =>
                    /\ DOMAIN index = Square(loc, s)
                    /\ Cardinality(DOMAIN index) = (2 * s + 1) * (2 * s + 1))

C2_Witness ==
    /\ TickDone
    /\ settings.spawn_radius = 1
    /\ settings.despawn_radius >= 1
    /\ before = EmptyIndex
    /\ loc = <<0, 0>>
    /\ Cardinality(DOMAIN index) = 9

(***************************************************************************)
(* C3  Despawn correctness: in a frame with despawn_radius d >= 0, every    *)
(* chunk indexed at the start of the frame and farther than d from the      *)
(* observer coordinate on some axis leaves the index and has its entity     *)
(* despawned exactly once; every indexed chunk within d on both axes (the   *)
(* distance d included) keeps its place and its handle and is not           *)
(* generated again.                                                         *)
(***************************************************************************)
C3_DespawnCorrectness ==
    LET d == settings.despawn_radius
    IN  (TickDone /\ d >= 0) =>
            \A k \in DOMAIN before :
                IF Dist(k, loc) > d
                THEN /\ k \notin DOMAIN index
                     /\ Count(destroyed, before[k]) = 1
                     /\ before[k] \notin DOMAIN world
                ELSE /\ k \in DOMAIN index
                     /\ index[k] = before[k]
                     /\ before[k] \in DOMAIN world
                     /\ Count(destroyed, before[k]) = 0
                     /\ k \notin GeneratedKeys

C3_Witness ==
    /\ TickDone
    /\ settings.despawn_radius >= 1
    /\ \E k \in DOMAIN before : Dist(k, loc) > settings.despawn_radius
    /\ \E k \in DOMAIN before :
           /\ Dist(k, loc) = settings.despawn_radius
           /\ k \in DOMAIN index
    /\ \E k \in DOMAIN before :
           /\ Abs(k[1] - loc[1]) <= settings.despawn_radius
           /\ Abs(k[2] - loc[2]) > settings.despawn_radius
           /\ k \notin DOMAIN index

(***************************************************************************)
(* C4  Idempotent spawning: when two frames in a row run with the same      *)
(* observer position (despawn_radius >= spawn_radius), the second queues    *)
(* and applies no spawn_chunk and no despawn and leaves the index as the    *)
(* first left it, coordinates and handles.                                  *)
(***************************************************************************)
C4_IdempotentSpawning ==
    (/\ tick = "ran"
     /\ prevTick = "ran"
     /\ observers = prevObservers
     /\ settings.despawn_radius >= settings.spawn_radius) =>
        /\ requested = <<>>
        /\ queue = <<>>
        /\ generated = <<>>
        /\ destroyed = <<>>
        /\ index = before

C4_Witness ==
    /\ tick = "ran"
    /\ prevTick = "ran"
    /\ observers = prevObservers
    /\ settings.spawn_radius = 1
    /\ settings.despawn_radius >= settings.spawn_radius
    /\ Cardinality(DOMAIN index) > 9

(***************************************************************************)
(* C5  Hysteresis: with despawn_radius > spawn_radius, once the observer    *)
(* has been on each of two adjacent chunk coordinates, every further frame  *)
(* that finds it on either of them queues no spawn_chunk and no despawn.    *)
(***************************************************************************)
C5_Hysteresis ==
    (/\ tick = "ran"
     /\ revisit
     /\ Cardinality(visited) = 2
     /\ settings.despawn_radius > settings.spawn_radius) =>
        /\ requested = <<>>
        /\ queue = <<>>
        /\ generated = <<>>
        /\ destroyed = <<>>

C5_Witness ==
    /\ tick = "ran"
    /\ revisit
    /\ Cardinality(visited) = 2
    /\ settings.despawn_radius > settings.spawn_radius
    /\ settings.spawn_radius = 1
    /\ frame = MaxFrames
    /\ Len(prevObservers) = 1
    /\ loc # ChunkCoord(prevObservers[1])

(***************************************************************************)
(* C6  Index/world consistency at every tick boundary: no handle is stored  *)
(* under two coordinates, every indexed handle is a live terrain entity,    *)
(* and every live terrain entity is the handle indexed under its own        *)
(* coordinate.                                                              *)
(***************************************************************************)
C6_IndexWorldConsistency ==
    TickBoundary =>
        /\ \A a, b \in DOMAIN index : index[a] = index[b] => a = b
        /\ \A k \in DOMAIN index : index[k] \in DOMAIN world
        /\ \A e \in DOMAIN world :
               /\ world[e].offset \in DOMAIN index
               /\ index[world[e].offset] = e

C6_Witness ==
    /\ TickDone
    /\ generated # <<>>
    /\ destroyed # <<>>
    /\ Cardinality(DOMAIN index) >= 9

(***************************************************************************)
(* C7  Disabled despawn: with a negative despawn_radius no step despawns    *)
(* an entity or removes a coordinate; the index after a step contains the   *)
(* index before it.                                                         *)
(***************************************************************************)
C7_DisabledDespawn ==
    [][settings.despawn_radius < 0 =>
          /\ DOMAIN index \subseteq DOMAIN index'
          /\ \A k \in DOMAIN index : index'[k] = index[k]
          /\ DOMAIN world \subseteq DOMAIN world'
          /\ destroyed' = <<>>]_vars

C7_Witness ==
    /\ settings.despawn_radius < 0
    /\ settings.spawn_radius = 1
    /\ frame >= 3
    /\ TickDone
    /\ Cardinality(DOMAIN index) >= 15

(***************************************************************************)
(* C8  Mesh/collider consistency: for every (x, z) in 0..R the mesh vertex  *)
(* at flattened index x*(R+1)+z has the Y coordinate heights[x][z] of the   *)
(* returned height matrix.  (Sequences count from 1.)                       *)
(***************************************************************************)
C8_MeshColliderConsistency ==
    meshOut # NoMesh =>
        LET R == meshArgs.resolution
        IN  \A x \in 0..R, z \in 0..R :
                /\ x * (R + 1) + z + 1 \in DOMAIN meshOut.mesh.positions
                /\ x + 1 \in DOMAIN meshOut.heights
                /\ z + 1 \in DOMAIN meshOut.heights[x + 1]
                /\ meshOut.mesh.positions[x * (R + 1) + z + 1][2]
                       = meshOut.heights[x + 1][z + 1]

C8_Witness ==
    /\ meshOut # NoMesh
    /\ meshArgs.resolution >= 2
    /\ meshArgs.offset[1] < 0
    /\ meshOut.heights[1][2] # meshOut.heights[2][1]
    /\ meshOut.heights[1][2] # <<0, 1>>

(***************************************************************************)
(* C9  Grid shape: the height matrix has R+1 rows of R+1 entries, the mesh  *)
(* has (R+1)^2 positions and (R+1)^2 UVs, and 6*R^2 triangle indices.       *)
(***************************************************************************)
C9_GridShape ==
    meshOut # NoMesh =>
        LET R == meshArgs.resolution
        IN  /\ Len(meshOut.heights) = R + 1
            /\ \A x \in 1..Len(meshOut.heights) : Len(meshOut.heights[x]) = R + 1
            /\ Len(meshOut.mesh.positions) = (R + 1) * (R + 1)
            /\ Len(meshOut.mesh.uvs) = (R + 1) * (R + 1)
            /\ Len(meshOut.mesh.indices) = 6 * R * R

C9_Witness ==
    /\ meshOut # NoMesh
    /\ meshArgs.resolution = 3
    /\ Len(meshOut.mesh.positions) = 16
    /\ Len(meshOut.mesh.indices) = 54

(***************************************************************************)
(* C10  Missing observer: a frame whose observer query matches no entity    *)
(* or more than one queues nothing and changes neither the index nor the    *)
(* world; the next frame that finds exactly one observer runs both passes   *)
(* and requests every coordinate of its spawn square the index lacks.       *)
(***************************************************************************)
C10_MissingObserver ==
    [][/\ (frame' = frame + 1 /\ Len(observers') # 1) =>
              /\ tick' = "skipped"
              /\ queue' = <<>>
              /\ index' = index
              /\ world' = world
              /\ nextEntity' = nextEntity
       /\ (frame' = frame + 1 /\ tick = "skipped" /\ Len(observers') = 1) =>
              /\ tick' = "ran"
              /\ Range(requested') =
                     Square(loc', settings.spawn_radius) \ DOMAIN index
      ]_vars

C10_Witness ==
    /\ TickDone
    /\ prevTick = "skipped"
    /\ Len(prevObservers) = 2
    /\ generated # <<>>
    /\ frame >= 3

(***************************************************************************)
(* Vocabulary of the queue.                                                *)
(***************************************************************************)
\* The arguments of the queued commands of one kind, in queue order.
QueuedArgs(kind) ==
    LET q == SelectSeq(queue, LAMBDA c : c.cmd = kind)
    IN  [i \in 1..Len(q) |-> q[i].arg]

\* Queue positions of the commands of one kind.
QueuePositions(kind) == {i \in 1..Len(queue) : queue[i].cmd = kind}

\* The last frame ran both passes and its commands are still queued.
TickPending == tick = "ran" /\ queue # <<>>

\* The keys the run asked remove_chunks_from_index to remove.
QueuedRemovals ==
    UNION {Range(QueuedArgs("remove_chunks_from_index")[i]) :
               i \in 1..Len(QueuedArgs("remove_chunks_from_index"))}

\* The indexed keys farther than the despawn radius from the observer
\* coordinate, none when the radius is negative.
FarKeys(idx, c, d) == IF d >= 0 THEN {k \in DOMAIN idx : Dist(k, c) > d} ELSE {}

(***************************************************************************)
(* C11 as stated: the index the despawn pass iterates already holds the     *)
(* chunks requested in this tick.                                           *)
(***************************************************************************)
C11_DespawnPassSeesSpawned ==
    tick = "ran" => Range(requested) \subseteq DOMAIN before

(***************************************************************************)
(* C11 amended: the spawn pass queues spawn_chunk for every missing chunk   *)
(* of the spawn square before the despawn pass is evaluated; both passes    *)
(* use the one observer coordinate and the one index read at the start of   *)
(* the tick, which holds none of the requested chunks; the spawn_chunk      *)
(* commands are queued, and so applied, before every despawn and removal.   *)
(***************************************************************************)
C11_PassOrder ==
    TickPending =>
        /\ QueuedArgs("spawn_chunk") = requested
        /\ Range(requested) = Square(loc, settings.spawn_radius) \ DOMAIN before
        /\ Range(requested) \cap DOMAIN before = {}
        /\ index = before
        /\ Range(QueuedArgs("despawn")) =
               {before[k] : k \in FarKeys(before, loc, settings.despawn_radius)}
        /\ QueuedRemovals = FarKeys(before, loc, settings.despawn_radius)
        /\ \A i \in QueuePositions("spawn_chunk") :
               \A j \in QueuePositions("despawn")
                        \cup QueuePositions("remove_chunks_from_index") : i < j

C11_Witness ==
    /\ TickPending
    /\ requested # <<>>
    /\ QueuedArgs("despawn") # <<>>
    /\ settings.despawn_radius >= settings.spawn_radius

(***************************************************************************)
(* C12  With despawn_radius >= spawn_radius no coordinate is both requested *)
(* for generation and despawned or removed in the same tick.                *)
(***************************************************************************)
C12_NoSpawnAndDespawn ==
    (tick = "ran" /\ settings.despawn_radius >= settings.spawn_radius) =>
        /\ Range(requested) \cap QueuedRemovals = {}
        /\ \A k \in Range(requested) :
               /\ k \notin FarKeys(before, loc, settings.despawn_radius)
               /\ \A i \in 1..Len(generated) :
                      generated[i][1] = k => generated[i][2] \notin Range(destroyed)
        /\ TickBoundary => Range(requested) \subseteq DOMAIN index

C12_Witness ==
    /\ TickDone
    /\ settings.despawn_radius >= settings.spawn_radius
    /\ settings.despawn_radius >= 0
    /\ generated # <<>>
    /\ destroyed # <<>>

(***************************************************************************)
(* C13  Same-tick registration: once a tick's commands are applied, every   *)
(* chunk it requested has been generated exactly once and is indexed under  *)
(* its coordinate with the entity generated for it, alive and placed at     *)
(* coordinate * FLOOR_SIZE; nothing else was generated.                     *)
(***************************************************************************)
C13_SameTickRegistration ==
    TickDone =>
        /\ Len(generated) = Len(requested)
        /\ \A i \in 1..Len(requested) :
               LET key == requested[i]
                   entity == generated[i][2]
               IN  /\ generated[i][1] = key
                   /\ key \in DOMAIN index
                   /\ index[key] = entity
                   /\ entity \in DOMAIN world
                   /\ world[entity].offset = key
                   /\ world[entity].transform =
                          <<key[1] * FLOOR_SIZE, 0, key[2] * FLOOR_SIZE>>

C13_Witness ==
    /\ TickDone
    /\ frame >= 2
    /\ Len(requested) >= 3
    /\ destroyed # <<>>
    /\ settings.despawn_radius < settings.spawn_radius

(***************************************************************************)
(* C14  Misconfiguration churn: with 0 <= despawn_radius < spawn_radius a   *)
(* tick still runs, and for a stationary observer every coordinate farther  *)
(* than despawn_radius but within spawn_radius changes sides in every       *)
(* tick: indexed before the tick, it is despawned and removed; missing      *)
(* before the tick, it is generated and indexed.  The index never equals    *)
(* the one the previous tick left.                                          *)
(***************************************************************************)
C14_MisconfigurationChurn ==
    LET s == settings.spawn_radius
        d == settings.despawn_radius
        ring == Square(loc, s) \ Square(loc, d)
    IN  (/\ TickDone
         /\ prevTick = "ran"
         /\ observers = prevObservers
         /\ 0 <= d
         /\ d < s) =>
            /\ \A k \in ring :
                   IF k \in DOMAIN before
                   THEN /\ k \notin DOMAIN index
                        /\ before[k] \in Range(destroyed)
                        /\ before[k] \notin DOMAIN world
                   ELSE /\ k \in DOMAIN index
                        /\ k \in GeneratedKeys
            /\ index # before

C14_Witness ==
    /\ TickDone
    /\ prevTick = "ran"
    /\ observers = prevObservers
    /\ settings.despawn_radius = 0
    /\ settings.spawn_radius = 1
    /\ frame >= 3
    /\ Len(generated) = 8
    /\ nextEntity = 18

(***************************************************************************)
(* C15  Bounded growth: with despawn_radius d >= spawn_radius >= 0, once a  *)
(* tick's commands are applied the index holds no coordinate farther than   *)
(* d from the observer coordinate on either axis, so at most (2d+1)^2.      *)
(***************************************************************************)
C15_BoundedGrowth ==
    LET s == settings.spawn_radius
        d == settings.despawn_radius
    IN  (TickDone /\ s >= 0 /\ d >= s) =>
            /\ \A k \in DOMAIN index :
                   Abs(k[1] - loc[1]) <= d /\ Abs(k[2] - loc[2]) <= d
            /\ Cardinality(DOMAIN index) <= (2 * d + 1) * (2 * d + 1)
            /\ Cardinality(DOMAIN world) <= (2 * d + 1) * (2 * d + 1)

C15_Witness ==
    /\ TickDone
    /\ settings.despawn_radius >= settings.spawn_radius
    /\ settings.spawn_radius >= 1
    /\ frame >= 2
    /\ destroyed # <<>>
    /\ Len(prevObservers) = 1
    /\ Dist(loc, ChunkCoord(prevObservers[1])) >= 2

Flat(R, x, z) == x * (R + 1) + z + 1

RightOffset == <<meshArgs.offset[1] + 1, meshArgs.offset[2]>>
FrontOffset == <<meshArgs.offset[1], meshArgs.offset[2] + 1>>

\* World (x, z) of a vertex of the chunk spawned for `offset`: the entity's
\* translation offset * FLOOR_SIZE (chunks.rs:108-112) plus the local position.
WorldXZ(offset, position) ==
    <<RatAdd(RatInt(offset[1] * FLOOR_SIZE), position[1]),
      RatAdd(RatInt(offset[2] * FLOOR_SIZE), position[3])>>

(***************************************************************************)
(* C17 as stated: the x sample coordinates of the rightmost column of       *)
(* chunk (cx, cz) and of the leftmost column of chunk (cx+1, cz) are one    *)
(* grid step FLOOR_SIZE / R apart (scaled by noise_scale), not equal.       *)
(***************************************************************************)
C17_SeamOneStepApart ==
    (meshOut # NoMesh /\ meshRight # NoMesh) =>
        LET R == meshArgs.resolution
        IN  \A z \in 0..R :
                /\ meshRight.samples[Flat(R, 0, z)][1]
                       # meshOut.samples[Flat(R, R, z)][1]
                /\ RatSub(meshRight.samples[Flat(R, 0, z)][1],
                          meshOut.samples[Flat(R, R, z)][1])
                       = RatMul(Rat(FLOOR_SIZE, R), NoiseScale)

(***************************************************************************)
(* C17 amended: the rightmost column (x = R) of chunk (cx, cz) and the      *)
(* leftmost column (x = 0) of chunk (cx+1, cz) sample the noise at the      *)
(* same points, world x = cx * FLOOR_SIZE + FLOOR_SIZE / 2: the border      *)
(* column is shared, not one grid step apart.                               *)
(***************************************************************************)
C17_SeamSamplesEqual ==
    (meshOut # NoMesh /\ meshRight # NoMesh) =>
        LET R == meshArgs.resolution
        IN  \A z \in 0..R :
                /\ meshRight.samples[Flat(R, 0, z)] = meshOut.samples[Flat(R, R, z)]
                /\ meshOut.samples[Flat(R, R, z)][1]
                       = RatMul(RatInt(meshArgs.offset[1] * FLOOR_SIZE + FLOOR_SIZE \div 2),
                                NoiseScale)

C17_Witness ==
    /\ meshOut # NoMesh
    /\ meshRight # NoMesh
    /\ meshArgs.resolution >= 2
    /\ meshArgs.offset[1] < 0
    /\ meshRight.samples[Flat(meshArgs.resolution, 1, 0)]
           # meshOut.samples[Flat(meshArgs.resolution, 1, 0)]

(***************************************************************************)
(* C18  Seamless tiling: any vertex of chunk (cx, cz) and any vertex of     *)
(* its neighbour along x, or along z, that land on the same world (x, z)    *)
(* have the same height, and every vertex of the shared border has such a   *)
(* partner; the collider heights agree there as well.                       *)
(***************************************************************************)
SeamAgrees(a, aOffset, b, bOffset) ==
    \A i \in DOMAIN a.mesh.positions, j \in DOMAIN b.mesh.positions :
        WorldXZ(aOffset, a.mesh.positions[i]) = WorldXZ(bOffset, b.mesh.positions[j])
            => a.mesh.positions[i][2] = b.mesh.positions[j][2]

C18_SeamlessTiling ==
    LET R == meshArgs.resolution
    IN  /\ (meshOut # NoMesh /\ meshRight # NoMesh) =>
               /\ SeamAgrees(meshOut, meshArgs.offset, meshRight, RightOffset)
               /\ \A z \in 0..R :
                      /\ WorldXZ(meshArgs.offset, meshOut.mesh.positions[Flat(R, R, z)])
                             = WorldXZ(RightOffset, meshRight.mesh.positions[Flat(R, 0, z)])
                      /\ meshOut.heights[R + 1][z + 1] = meshRight.heights[1][z + 1]
        /\ (meshOut # NoMesh /\ meshFront # NoMesh) =>
               /\ SeamAgrees(meshOut, meshArgs.offset, meshFront, FrontOffset)
               /\ \A x \in 0..R :
                      /\ WorldXZ(meshArgs.offset, meshOut.mesh.positions[Flat(R, x, R)])
                             = WorldXZ(FrontOffset, meshFront.mesh.positions[Flat(R, x, 0)])
                      /\ meshOut.heights[x + 1][R + 1] = meshFront.heights[x + 1][1]

C18_Witness ==
    /\ meshOut # NoMesh
    /\ meshRight # NoMesh
    /\ meshFront # NoMesh
    /\ meshArgs.resolution >= 2
    /\ meshOut.heights # meshRight.heights
    /\ meshOut.heights # meshFront.heights
    /\ meshOut.heights[meshArgs.resolution + 1][1]
           # meshOut.heights[meshArgs.resolution + 1][2]

(***************************************************************************)
(* C20  Noise evaluation: get(x, z) on a field of L layers is the sum over  *)
(* i = 0..L-1 of base_noise[i](x * f_i, z * f_i) * a_i with                 *)
(* f_i = lacunarity^i and a_i = persistence^i, and 0 for L = 0.             *)
(***************************************************************************)
RECURSIVE RatPow(_, _)
RatPow(b, n) == IF n = 0 THEN RatInt(1) ELSE RatMul(b, RatPow(b, n - 1))

\* The term of layer i (counted from 0) of field p at (x, z).
LayerTerm(p, i, x, z) ==
    RatMul(PerlinGet(p.layers[i + 1],
                     RatMul(x, RatPow(p.lacunarity, i)),
                     RatMul(z, RatPow(p.lacunarity, i))),
           RatPow(p.persistance, i))

\* The sum of the terms of layers 0 .. n-1.
RECURSIVE LayerSum(_, _, _, _)
LayerSum(p, n, x, z) ==
    IF n = 0 THEN RatInt(0)
    ELSE RatAdd(LayerSum(p, n - 1, x, z), LayerTerm(p, n - 1, x, z))

C20_NoiseEvaluation ==
    noiseOut # <<>> =>
        LET p == LayeredPerlinNew(noiseArgs.layers)
        IN  /\ noiseOut[1] = LayerSum(p, noiseArgs.layers, noiseArgs.x, noiseArgs.z)
            /\ noiseArgs.layers = 0 => noiseOut[1] = <<0, 1>>

C20_Witness ==
    /\ noiseOut # <<>>
    /\ noiseArgs.layers = 3
    /\ noiseArgs.x = <<157, 50>>
    /\ noiseArgs.z = <<-271, 100>>
    /\ noiseOut[1] # <<0, 1>>
    /\ noiseOut[1] # PerlinGet(0, noiseArgs.x, noiseArgs.z)
    /\ noiseOut[1][2] = 4

(***************************************************************************)
(* C21  The observer's Y coordinate is ignored: a tick run with the         *)
(* observer at (x, y, z) computes the chunk coordinate, requests the keys,  *)
(* queues the commands and, once they are applied, leaves the index and     *)
(* the despawned entities that the same tick would with the observer at     *)
(* (x, y2, z), for every other height y2.                                   *)
(***************************************************************************)
\* The observer translation t moved to height y.
AtAltitude(t, y) == <<t[1], y, t[3]>>

C21_AltitudeIgnored ==
    [][/\ (frame' = frame + 1 /\ tick' = "ran") =>
              \A y \in AltitudeYs :
                  LET c == ChunkCoord(AtAltitude(observers'[1], y))
                  IN  /\ loc' = c
                      /\ requested' = SpawnPass(c, index, settings.spawn_radius)
                      /\ \E it \in IterOrders(index) :
                             queue' = QueuedCommands(c, index, it, settings)
       /\ (queue # <<>> /\ queue' = <<>>) =>
              \A y \in AltitudeYs :
                  LET c == ChunkCoord(AtAltitude(observers[1], y))
                      far == FarKeys(index, c, settings.despawn_radius)
                      asked == Range(SpawnPass(c, index, settings.spawn_radius))
                  IN  /\ asked \cap far = {} =>
                             DOMAIN index' = (DOMAIN index \ far) \cup asked
                      /\ \A k \in DOMAIN index \ far : index'[k] = index[k]
                      /\ Range(destroyed') = {index[k] : k \in far}
                      /\ GeneratedKeys' = asked
      ]_vars

C21_Witness ==
    /\ TickDone
    /\ prevTick = "ran"
    /\ frame >= 3
    /\ Len(prevObservers) = 1
    /\ Observer[2] = 40
    /\ prevObservers[1][2] = -40
    /\ Xz(Observer) # Xz(prevObservers[1])
    /\ generated # <<>>
    /\ destroyed # <<>>

(***************************************************************************)
(* C22  Triangle assembly: the index list holds two triangles per cell;     *)
(* the two triangles of cell (x, z) have three distinct vertices each,      *)
(* drawn from the cell's corners x*(R+1)+z, x*(R+1)+z+1, (x+1)*(R+1)+z and  *)
(* (x+1)*(R+1)+z+1, which are the vertices the vertex loop pushed for grid  *)
(* indices (x, z), (x, z+1), (x+1, z) and (x+1, z+1); every index is in     *)
(* 0 .. (R+1)^2 - 1 and every vertex is referenced by a triangle.           *)
(***************************************************************************)
\* The vertex indices of the t-th triangle (counted from 1) of an index list.
Triangle(indices, t) ==
    {indices[3 * (t - 1) + 1], indices[3 * (t - 1) + 2], indices[3 * (t - 1) + 3]}

\* The four corner indices of cell (x, z), with the grid index of each.
CellCorners(R, x, z) ==
    {<<x * (R + 1) + z, x, z>>,
     <<x * (R + 1) + z + 1, x, z + 1>>,
     <<(x + 1) * (R + 1) + z, x + 1, z>>,
     <<(x + 1) * (R + 1) + z + 1, x + 1, z + 1>>}

C22_TriangleAssembly ==
    meshOut # NoMesh =>
        LET R == meshArgs.resolution
            indices == meshOut.mesh.indices
            count == (R + 1) * (R + 1)
        IN  /\ Len(indices) = 3 * (2 * R * R)
            /\ \A x \in 0..(R - 1), z \in 0..(R - 1) :
                   LET corners == {c[1] : c \in CellCorners(R, x, z)}
                       first == Triangle(indices, 2 * (x * R + z) + 1)
                       second == Triangle(indices, 2 * (x * R + z) + 2)
                   IN  /\ Cardinality(corners) = 4
                       /\ Cardinality(first) = 3
                       /\ Cardinality(second) = 3
                       /\ first # second
                       /\ first \cup second = corners
                       /\ \A c \in CellCorners(R, x, z) :
                              meshOut.mesh.uvs[c[1] + 1] = <<Rat(c[2], R), Rat(c[3], R)>>
            /\ \A i \in 1..Len(indices) : indices[i] \in 0..(count - 1)
            /\ \A v \in 0..(count - 1) : \E i \in 1..Len(indices) : indices[i] = v
            /\ Len(meshOut.mesh.positions) = count

C22_Witness ==
    /\ meshOut # NoMesh
    /\ meshArgs.resolution = 3
    /\ Triangle(meshOut.mesh.indices, 18) = {11, 14, 15}
    /\ Triangle(meshOut.mesh.indices, 1) = {0, 1, 4}

(***************************************************************************)
(* C23  Vertex layout: the vertex of grid index (x, z) has local position   *)
(* x_pos = (x/R - 1/2) * FLOOR_SIZE and z_pos = (z/R - 1/2) * FLOOR_SIZE;   *)
(* index 0 lies at -FLOOR_SIZE/2, index R at +FLOOR_SIZE/2 and every        *)
(* position in between; its UV is (x/R, z/R), within [0, 1] x [0, 1].       *)
(***************************************************************************)
\* (i/R - 1/2) * FLOOR_SIZE as one fraction.
Centred(i, R) == Rat((2 * i - R) * FLOOR_SIZE, 2 * R)

\* lo <= a <= hi for a rational a and integers lo, hi.
RatWithin(a, lo, hi) == lo * a[2] <= a[1] /\ a[1] <= hi * a[2]

C23_VertexLayout ==
    meshOut # NoMesh =>
        LET R == meshArgs.resolution
            half == FLOOR_SIZE \div 2
        IN  \A x \in 0..R, z \in 0..R :
                LET position == meshOut.mesh.positions[Flat(R, x, z)]
                    uv == meshOut.mesh.uvs[Flat(R, x, z)]
                IN  /\ position[1] = Centred(x, R)
                    /\ position[3] = Centred(z, R)
                    /\ RatWithin(position[1], -half, half)
                    /\ RatWithin(position[3], -half, half)
                    /\ x = 0 => position[1] = <<-half, 1>>
                    /\ x = R => position[1] = <<half, 1>>
                    /\ z = 0 => position[3] = <<-half, 1>>
                    /\ z = R => position[3] = <<half, 1>>
                    /\ uv = <<Rat(x, R), Rat(z, R)>>
                    /\ RatWithin(uv[1], 0, 1)
                    /\ RatWithin(uv[2], 0, 1)

C23_Witness ==
    /\ meshOut # NoMesh
    /\ meshArgs.resolution = 3
    /\ meshArgs.offset = <<-2, 1>>
    /\ meshOut.mesh.positions[Flat(3, 1, 2)][1] = <<-4, 3>>
    /\ meshOut.mesh.positions[Flat(3, 1, 2)][3] = <<4, 3>>
    /\ meshOut.mesh.uvs[Flat(3, 1, 2)] = <<(<<1, 3>>), (<<2, 3>>)>>

(***************************************************************************)
(* C24  Spawn pass order: the keys a tick requests are the coordinates of   *)
(* its spawn square that the index lacks, each once, in row-major order     *)
(* (dz ascending outside, dx ascending inside); the spawn_chunk commands    *)
(* are queued in that order and applied in that order, whatever despawns    *)
(* and removals run in between, so the entities are created in that order.  *)
(***************************************************************************)
\* a comes before b in row-major order: smaller z, or equal z and smaller x.
RowMajorLess(a, b) == a[2] < b[2] \/ (a[2] = b[2] /\ a[1] < b[1])

C24_SpawnPassOrder ==
    tick = "ran" =>
        /\ \A i, j \in 1..Len(requested) :
               i < j => RowMajorLess(requested[i], requested[j])
        /\ Range(requested) = Square(loc, settings.spawn_radius) \ DOMAIN before
        /\ Len(generated) <= Len(requested)
        /\ [i \in 1..Len(generated) |-> generated[i][1]]
               = SubSeq(requested, 1, Len(generated))
        /\ QueuedArgs("spawn_chunk")
               = SubSeq(requested, Len(generated) + 1, Len(requested))
        /\ \A i, j \in 1..Len(generated) :
               i < j => generated[i][2] < generated[j][2]

C24_Witness ==
    /\ tick = "ran"
    /\ frame >= 2
    /\ before # EmptyIndex
    /\ Len(requested) = 5
    /\ Len(generated) = 3
    /\ Len(QueuedArgs("spawn_chunk")) = 2
    /\ destroyed # <<>>
    /\ \E i \in 1..4 : requested[i][2] < requested[i + 1][2]
    /\ \E i \in 1..4 :
           /\ requested[i][2] = requested[i + 1][2]
           /\ requested[i][1] < requested[i + 1][1]

(***************************************************************************)
(* C25  The ChunkIndex is written only by applied commands: the run of      *)
(* update_chunk_index leaves the index and the world as they are; every     *)
(* step that changes the index applies exactly one queued command, which    *)
(* is either a spawn_chunk that stores the new entity under its key or a    *)
(* remove_chunks_from_index that drops its keys; a despawn never touches    *)
(* the index.                                                               *)
(***************************************************************************)
C25_IndexWriters ==
    [][/\ frame' = frame + 1 => (index' = index /\ world' = world)
       /\ queue' # queue /\ frame' = frame =>
              \E i \in 1..Len(queue) :
                  /\ queue' = Without(queue, i)
                  /\ queue[i].cmd = "despawn" => index' = index
       /\ index' # index =>
              /\ frame' = frame
              /\ \E i \in 1..Len(queue) :
                     /\ queue' = Without(queue, i)
                     /\ \/ /\ queue[i].cmd = "spawn_chunk"
                           /\ index' = (queue[i].arg :> nextEntity) @@ index
                        \/ /\ queue[i].cmd = "remove_chunks_from_index"
                           /\ index' = [k \in DOMAIN index \ Range(queue[i].arg)
                                            |-> index[k]]
      ]_vars

C25_Witness ==
    /\ tick = "ran"
    /\ frame >= 2
    /\ QueuedArgs("spawn_chunk") # <<>>
    /\ QueuedArgs("remove_chunks_from_index") = <<>>
    /\ QueuedArgs("despawn") # <<>>
    /\ Len(destroyed) >= 1
    /\ Len(generated) >= 1
    /\ DOMAIN index # DOMAIN before

(***************************************************************************)
(* C30  Deferred-command order independence: the keys a tick queues for     *)
(* spawn_chunk are absent from the index it read and the keys it queues     *)
(* for removal are present in it, so the two sets are disjoint; in every    *)
(* interleaving of the spawn, despawn and remove commands the index ends    *)
(* as (index before minus the far keys) plus the requested keys, the kept   *)
(* keys with their handles; only entities of the index read are despawned.  *)
(***************************************************************************)
C30_OrderIndependence ==
    tick = "ran" =>
        LET far == FarKeys(before, loc, settings.despawn_radius)
            asked == Range(requested)
            removed == IF QueuedArgs("remove_chunks_from_index") = <<>>
                       THEN far ELSE {}
        IN  /\ asked \cap DOMAIN before = {}
            /\ far \subseteq DOMAIN before
            /\ asked \cap far = {}
            /\ Range(QueuedArgs("spawn_chunk")) \cap QueuedRemovals = {}
            /\ Range(destroyed) \subseteq {before[k] : k \in far}
            /\ DOMAIN index = (DOMAIN before \ removed) \cup GeneratedKeys
            /\ \A k \in DOMAIN before \ removed : index[k] = before[k]
            /\ queue = <<>> =>
                   /\ DOMAIN index = (DOMAIN before \ far) \cup asked
                   /\ Range(destroyed) = {before[k] : k \in far}
                   /\ \A i \in 1..Len(generated) :
                          index[generated[i][1]] = generated[i][2]

C30_Witness ==
    /\ tick = "ran"
    /\ frame >= 2
    /\ Len(QueuedArgs("spawn_chunk")) >= 2
    /\ QueuedArgs("remove_chunks_from_index") = <<>>
    /\ QueuedArgs("despawn") # <<>>
    /\ generated # <<>>
    /\ destroyed = <<>>
    /\ FarKeys(before, loc, settings.despawn_radius) # {}

(***************************************************************************)
(* C26  LayeredPerlin::new(L) holds exactly L base generators, the i-th     *)
(* (from 0) seeded with i, with lacunarity 2 and persistence 1/2; the       *)
(* field generate_heightfield_mesh builds is the one for L = 8.             *)
(***************************************************************************)
\* Field p has L layers seeded 0 .. L-1, lacunarity 2.0 and persistence 0.5.
WellBuilt(p, L) ==
    /\ Len(p.layers) = L
    /\ \A i \in 0..(L - 1) : p.layers[i + 1] = i
    /\ \A i, j \in 1..Len(p.layers) : p.layers[i] = p.layers[j] => i = j
    /\ p.lacunarity = <<2, 1>>
    /\ p.persistance = <<1, 2>>

C26_FieldConstruction ==
    /\ noiseField # <<>> => WellBuilt(noiseField[1], noiseArgs.layers)
    /\ meshOut # NoMesh => WellBuilt(meshOut.perlin, 8)

C26_Witness ==
    /\ noiseField # <<>>
    /\ noiseArgs.layers = 3
    /\ noiseField[1].layers = <<0, 1, 2>>
    /\ meshOut # NoMesh
    /\ meshOut.perlin.layers = <<0, 1, 2, 3, 4, 5, 6, 7>>

(***************************************************************************)
(* C27  Terrain under the observer: for every spawn_radius >= 0, once a     *)
(* tick's commands are applied the index holds a chunk whose extent,        *)
(* FLOOR_SIZE wide and centred on coordinate * FLOOR_SIZE on each axis,     *)
(* contains the observer's world (x, z).                                    *)
(***************************************************************************)
\* The chunk of coordinate k contains the (x, z) of translation t.  The
\* translation is in half units, so the extent is 2 * FLOOR_SIZE * k[i]
\* plus or minus FLOOR_SIZE.
Covers(k, t) ==
    /\ 2 * FLOOR_SIZE * k[1] - FLOOR_SIZE <= t[1]
    /\ t[1] <= 2 * FLOOR_SIZE * k[1] + FLOOR_SIZE
    /\ 2 * FLOOR_SIZE * k[2] - FLOOR_SIZE <= t[3]
    /\ t[3] <= 2 * FLOOR_SIZE * k[2] + FLOOR_SIZE

C27_TerrainUnderObserver ==
    (TickDone /\ settings.spawn_radius >= 0) =>
        \E k \in DOMAIN index :
            /\ Covers(k, Observer)
            /\ index[k] \in DOMAIN world
            /\ world[index[k]].transform = <<k[1] * FLOOR_SIZE, 0, k[2] * FLOOR_SIZE>>

(***************************************************************************)
(* C28  Hysteresis distance: with despawn_radius d >= spawn_radius s >= 0,  *)
(* a tick requests a coordinate that an earlier tick despawned only if the  *)
(* observer's chunk coordinate differs, on some axis, by at least           *)
(* d - s + 1 from the one it had in the despawning tick; an observer that   *)
(* stays within d - s of that coordinate never brings the chunk back.       *)
(***************************************************************************)
C28_HysteresisDistance ==
    LET s == settings.spawn_radius
        d == settings.despawn_radius
    IN  (tick = "ran" /\ s >= 0 /\ d >= s) =>
            \A p \in despawnedAt :
                /\ p[1] \in Range(requested) =>
                       \E axis \in {1, 2} : Abs(loc[axis] - p[2][axis]) >= d - s + 1
                /\ Dist(loc, p[2]) <= d - s => p[1] \notin Range(requested)

C28_Witness ==
    /\ TickDone
    /\ settings.spawn_radius = 1
    /\ settings.despawn_radius = 2
    /\ \E p \in despawnedAt :
           /\ p[1] \in GeneratedKeys
           /\ Dist(loc, p[2]) = 2
    /\ \E p \in despawnedAt :
           /\ Dist(loc, p[2]) = 1
           /\ p[1] \notin DOMAIN index

====
